---------------------------- MODULE Spec2Model ----------------------------
(***************************************************************************)
(* A model of the VRController OpenNI catcher: the per-frame estimators of *)
(* openniutil.h (rotationFrom2Joints, rotationForUser, walkSpeedForUser)   *)
(* and the lifecycle, frame loop, callbacks and shared-region writes of    *)
(* OpenNIApplication (openniapplication.cpp).                              *)
(*                                                                         *)
(* Number representation.  The code computes angles in float.  Here a      *)
(* float angle is an integer count of 1/AngleScale degree; the margins     *)
(* 55/frequency are exact in that unit for every frequency of Freqs, and   *)
(* the arctangents of AtanTable are rounded to it.  No table value shares  *)
(* a residue modulo AngleScale with a smoothing threshold, so every        *)
(* comparison and every truncation to int gives the result the float       *)
(* computation gives.  Confidences are in tenths (0.6 is 6), products of   *)
(* two confidences in hundredths, products of four in 1/10000.             *)
(***************************************************************************)
EXTENDS Integers, Sequences, FiniteSets, TLC

(***************************************************************************)
(* Bounds of the model                                                     *)
(***************************************************************************)
\* loop iterations that get past the stop check, per behaviour
MaxFrames == 3
\* samples of the depth buffer (DEPTH_MAP_LENGTH is 640*480 in the code)
DepthLen == 2

(***************************************************************************)
(* Program constants                                                       *)
(***************************************************************************)
MIN_COMPUTED_WALKSPEED == 40
\* isJointAcceptable: fConfidence >= 0.6, in tenths
ConfThreshold == 6
\* 55.0f / frequency: degrees per second
MaxRotationPerSecond == 55
\* 100.0f / frequency: cm/s per second
MaxAccelPerSecond == 100

AngleScale == 6 * 10
IntMax == 2147483646 + 1
IntMin == (-2147483647) - 1
\* the float value NaN (0/0 in the arctangent)
NaN == 0 - 999999

\* _frequency, the constructor's parameter
Freqs == {1, 30, 110}
\* the frequency of the lifecycle specifications, which do not depend on it
FewFreqs == {30}

Abs(x) == IF x < 0 THEN -x ELSE x

\* C++ integer division and float-to-int conversion truncate toward zero
TruncDiv(a, b) == IF a >= 0 THEN a \div b ELSE (a + b - 1) \div b

CeilDiv(a, b) == (a + b - 1) \div b

\* signed 32-bit addition as the hardware does it (two's complement wrap)
Add32(a, b) ==
    IF a >= 0 /\ b >= 0 /\ a > IntMax - b THEN ((a - IntMax) + (b - IntMax)) - 2
    ELSE IF a < 0 /\ b < 0 /\ a < IntMin - b THEN (a - IntMin) + (b - IntMin)
    ELSE a + b

(***************************************************************************)
(* Joint model                                                             *)
(***************************************************************************)
\* a Joint whose isActive is false: info is never read
InactiveJoint == [isActive |-> FALSE, conf |-> 0, X |-> 0, Z |-> 0]

MkJoint(c, x, z) == [isActive |-> TRUE, conf |-> c, X |-> x, Z |-> z]

\* BodyPart (the knee is filled by the loop and read by no estimator)
EmptyPart == [hip |-> InactiveJoint, foot |-> InactiveJoint, shoulder |-> InactiveJoint]

\* struct User with its default member initializers; id and timestamp have
\* none and are read by the program only after the loop has set them
DefaultUser ==
    [id |-> 0, isTracking |-> FALSE, timestamp |-> 0,
     torsoJoint |-> InactiveJoint,
     leftPart |-> EmptyPart, rightPart |-> EmptyPart,
     previousLeftPart |-> EmptyPart, previousRightPart |-> EmptyPart,
     rotation |-> -1, rotationConfidence |-> -100,
     walkSpeed |-> -1, walkSpeedConfidence |-> -10000,
     numberOfFramesWithoutMove |-> 0]

\* a confidence of exactly 0.6 refused
isJointAcceptableStrict(joint) == joint.isActive /\ joint.conf > ConfThreshold

isJointAcceptable(joint) == joint.isActive /\ joint.conf >= ConfThreshold

reduceAngle(angle) ==
    IF angle >= 360 THEN angle - 360
    ELSE IF angle < 0 THEN 360 + angle
    ELSE angle

(***************************************************************************)
(* Orientation estimator                                                   *)
(***************************************************************************)
\* std::atan(|dz| / |dx|) * RAD2DEG in 1/AngleScale degree, for the position
\* differences the model's coordinates give; 0/0 is NaN, x/0 is +inf
AtanTable(dz, dx) ==
    IF dz = 0 /\ dx = 0 THEN NaN
    ELSE IF dx = 0 THEN 90 * AngleScale
    ELSE IF dz = 0 THEN 0
    ELSE IF dz = dx THEN 45 * AngleScale
    ELSE IF 2 * dz = dx THEN 1594
    ELSE IF dz = 2 * dx THEN 3806
    ELSE IF 3 * dz = dx THEN 1106
    ELSE IF dz = 3 * dx THEN 4294
    ELSE IF 3 * dz = 2 * dx THEN 2021
    ELSE IF 2 * dz = 3 * dx THEN 3379
    ELSE NaN

\* the fourth case giving the angle its comment names
RawRotationWith270(rightJoint, leftJoint) ==
    LET angle == AtanTable(Abs(rightJoint.Z - leftJoint.Z), Abs(rightJoint.X - leftJoint.X))
        sub(a) == IF angle = NaN THEN NaN ELSE a - angle
        add(a) == IF angle = NaN THEN NaN ELSE a + angle
    IN  IF rightJoint.Z = leftJoint.Z /\ rightJoint.X > leftJoint.X THEN 0
        ELSE IF rightJoint.X = leftJoint.X /\ rightJoint.Z > leftJoint.Z THEN 90 * AngleScale
        ELSE IF rightJoint.Z = leftJoint.Z /\ rightJoint.X < leftJoint.X THEN 180 * AngleScale
        ELSE IF rightJoint.X = leftJoint.X /\ rightJoint.Z < leftJoint.Z THEN 270 * AngleScale
        ELSE IF rightJoint.Z < leftJoint.Z
             THEN (IF rightJoint.X > leftJoint.X THEN angle ELSE sub(180 * AngleScale))
             ELSE (IF rightJoint.X < leftJoint.X THEN add(180 * AngleScale) ELSE sub(360 * AngleScale))

\* the eight cases that resolve the quadrant
RawRotation(rightJoint, leftJoint) ==
    LET angle == AtanTable(Abs(rightJoint.Z - leftJoint.Z), Abs(rightJoint.X - leftJoint.X))
        sub(a) == IF angle = NaN THEN NaN ELSE a - angle
        add(a) == IF angle = NaN THEN NaN ELSE a + angle
    IN  IF rightJoint.Z = leftJoint.Z /\ rightJoint.X > leftJoint.X THEN 0
        ELSE IF rightJoint.X = leftJoint.X /\ rightJoint.Z > leftJoint.Z THEN 90 * AngleScale
        ELSE IF rightJoint.Z = leftJoint.Z /\ rightJoint.X < leftJoint.X THEN 180 * AngleScale
        ELSE IF rightJoint.X = leftJoint.X /\ rightJoint.Z < leftJoint.Z THEN 90 * AngleScale
        ELSE IF rightJoint.Z < leftJoint.Z
             THEN (IF rightJoint.X > leftJoint.X THEN angle ELSE sub(180 * AngleScale))
             ELSE (IF rightJoint.X < leftJoint.X THEN add(180 * AngleScale) ELSE sub(360 * AngleScale))

RotationMargin(frequency) == (MaxRotationPerSecond * AngleScale) \div frequency

\* the smoothing of a resolved angle against a previous rotation in -1..360;
\* every comparison with NaN is false, so NaN passes through
SmoothRotation(frequency, rotation, previousRotation) ==
    IF previousRotation = -1 \/ rotation = NaN THEN rotation
    ELSE LET prev0 == previousRotation * AngleScale
             far == Abs(rotation - prev0) > 180 * AngleScale
             rot1 == IF far /\ rotation < prev0 THEN rotation + 360 * AngleScale ELSE rotation
             prev1 == IF far /\ ~(rotation < prev0) THEN prev0 + 360 * AngleScale ELSE prev0
             margin == RotationMargin(frequency)
             diffRotation == rot1 - prev1
             rot2 == IF Abs(diffRotation) > margin
                     THEN (IF diffRotation > 0 THEN prev1 + margin ELSE prev1 - margin)
                     ELSE rot1
         IN  IF rot2 >= 360 * AngleScale THEN rot2 - 360 * AngleScale ELSE rot2

\* static_cast<int> of the float rotationFrom2Joints returns.  The conversion
\* of NaN is undefined: nanInt is the value the build gives it.  A previous
\* rotation far outside [0,360) (the product of such a conversion) would not
\* fit the scaled arithmetic: the same smoothing is then done in degrees.
SmoothedInt(frequency, rotation, previousRotation, nanInt) ==
    IF rotation = NaN THEN nanInt
    ELSE IF previousRotation >= -720 /\ previousRotation <= 720
         THEN TruncDiv(SmoothRotation(frequency, rotation, previousRotation), AngleScale)
    ELSE IF previousRotation < 0
         THEN previousRotation + 360 + CeilDiv(RotationMargin(frequency), AngleScale)
    ELSE previousRotation - 360 - CeilDiv(RotationMargin(frequency), AngleScale)

\* [rotation, confidence]: the int the caller keeps and the value written to
\* *resultConfidence (in hundredths)
rotationFrom2Joints(frequency, rightJoint, leftJoint, previousRotation, nanInt) ==
    IF isJointAcceptable(rightJoint) /\ isJointAcceptable(leftJoint)
    THEN [rotation |-> SmoothedInt(frequency, RawRotation(rightJoint, leftJoint),
                                   previousRotation, nanInt),
          confidence |-> (leftJoint.conf + 10) * (rightJoint.conf + 10)]
    ELSE [rotation |-> -1, confidence |-> -100]

\* the average of the sub-rotations that are not -1
RECURSIVE RotSum(_, _)
RotSum(rotations, i) ==
    IF i = 0 THEN 0
    ELSE LET s == RotSum(rotations, i - 1)
             r == rotations[i]
         IN  IF r = -1 THEN s
             ELSE IF r > 180 THEN Add32(s, r - 360)
             ELSE Add32(s, r)

RotCount(rotations) == Cardinality({i \in 1..4 : rotations[i] # -1})

AggregateRotation(rotations) ==
    IF RotCount(rotations) # 0
    THEN reduceAngle(TruncDiv(RotSum(rotations, 4), RotCount(rotations)))
    ELSE -1

\* the confidence slot handed to every pair: the shoulder pair writes last
rotationForUserSharedSlot(frequency, previousRotation, user, nanInt) ==
    LET shoulders == rotationFrom2Joints(frequency, user.rightPart.shoulder,
                                         user.leftPart.shoulder, previousRotation, nanInt)
        rotations ==
            << rotationFrom2Joints(frequency, user.rightPart.hip, user.leftPart.hip,
                                   previousRotation, nanInt).rotation,
               rotationFrom2Joints(frequency, user.rightPart.hip, user.torsoJoint,
                                   previousRotation, nanInt).rotation,
               rotationFrom2Joints(frequency, user.torsoJoint, user.leftPart.hip,
                                   previousRotation, nanInt).rotation,
               shoulders.rotation >>
    IN  [user EXCEPT !.rotationConfidence = shoulders.confidence,
                     !.rotation = AggregateRotation(rotations)]

rotationForUser(frequency, previousRotation, user, nanInt) ==
    LET hips == rotationFrom2Joints(frequency, user.rightPart.hip, user.leftPart.hip,
                                    previousRotation, nanInt)
        rotations ==
            << hips.rotation,
               rotationFrom2Joints(frequency, user.rightPart.hip, user.torsoJoint,
                                   previousRotation, nanInt).rotation,
               rotationFrom2Joints(frequency, user.torsoJoint, user.leftPart.hip,
                                   previousRotation, nanInt).rotation,
               rotationFrom2Joints(frequency, user.rightPart.shoulder, user.leftPart.shoulder,
                                   previousRotation, nanInt).rotation >>
    IN  [user EXCEPT !.rotationConfidence = hips.confidence,
                     !.rotation = AggregateRotation(rotations)]

(***************************************************************************)
(* Walk-speed estimator                                                    *)
(***************************************************************************)
\* the largest root the search tries: its square still fits 32 bits
SqrtMax == 46 * 1000
RECURSIVE SqrtIter(_, _, _)
SqrtIter(n, lo, hi) ==
    IF lo >= hi THEN lo
    ELSE LET mid == (lo + hi + 1) \div 2
         IN  IF mid * mid <= n THEN SqrtIter(n, mid, hi) ELSE SqrtIter(n, lo, mid - 1)

\* 100 * sqrt(n), rounded down: a displacement in hundredths of a millimetre
Sqrt100(n) == SqrtIter(n * 10000, 0, SqrtMax)

\* the margin rounded up instead of truncated
SpeedMarginRoundedUp(frequency) == (MaxAccelPerSecond + frequency - 1) \div frequency

\* const int margin = 100.0f / (float)frequency
SpeedMargin(frequency) == MaxAccelPerSecond \div frequency

\* only the right foot is tested, now and before
CantComputeRightOnly(user) ==
    ~(isJointAcceptable(user.rightPart.foot) /\ isJointAcceptable(user.previousRightPart.foot))

\* only the current feet are tested
CantComputeCurrentOnly(user) ==
    ~(isJointAcceptable(user.rightPart.foot) /\ isJointAcceptable(user.leftPart.foot))

\* bool cantCompute: one of the four feet is not acceptable
CantCompute(user) ==
    ~(/\ isJointAcceptable(user.rightPart.foot)
      /\ isJointAcceptable(user.previousRightPart.foot)
      /\ isJointAcceptable(user.leftPart.foot)
      /\ isJointAcceptable(user.previousLeftPart.foot))

\* [speed, written, confidence]: the returned speed, whether *resultConfidence
\* was written, and the value written (in 1/10000)
walkSpeedForUser(frequency, user, previousTimestamp, previousSpeed) ==
    LET rf == user.rightPart.foot
        prf == user.previousRightPart.foot
        lf == user.leftPart.foot
        plf == user.previousLeftPart.foot
        cantCompute == CantCompute(user)
    IN  IF cantCompute THEN [speed |-> -1, written |-> FALSE, confidence |-> 0]
        ELSE LET rdx == prf.X - rf.X
                 rdz == prf.Z - rf.Z
                 ldx == plf.X - lf.X
                 ldz == plf.Z - lf.Z
                 rightDiff == Sqrt100(rdx * rdx + rdz * rdz)
                 leftDiff == Sqrt100(ldx * ldx + ldz * ldz)
                 diffTime == user.timestamp - previousTimestamp
                 \* (diff * 0.1) / (diffTime * 0.001), diff = (right + left) / 2
                 speed == TruncDiv(rightDiff + leftDiff, 2 * diffTime)
                 margin == SpeedMargin(frequency)
                 smoothed == IF previousSpeed # -1 /\ Abs(speed - previousSpeed) > margin
                             THEN (IF speed < previousSpeed THEN previousSpeed - margin
                                   ELSE previousSpeed + margin)
                             ELSE speed
             IN  [speed |-> smoothed, written |-> TRUE,
                  confidence |-> (rf.conf + 10) * (prf.conf + 10) * (lf.conf + 10) * (plf.conf + 10)]

(***************************************************************************)
(* Frame assembler: the body of one loop iteration after the wait          *)
(***************************************************************************)
\* the counter decided on the speed of the frame itself
FramesWithoutMoveOnCurrent(previousUser, user) ==
    IF user.walkSpeed # -1 /\ user.walkSpeed <= MIN_COMPUTED_WALKSPEED
    THEN previousUser.numberOfFramesWithoutMove + 1
    ELSE 0

\* the counter with no test of the previous speed's validity
FramesWithoutMoveNoValidity(previousUser, user) ==
    IF previousUser.walkSpeed <= MIN_COMPUTED_WALKSPEED
    THEN previousUser.numberOfFramesWithoutMove + 1
    ELSE 0

\* user.numberOfFramesWithoutMove of a tracked frame after the first
FramesWithoutMove(previousUser, user) ==
    IF previousUser.walkSpeed # -1 /\ previousUser.walkSpeed <= MIN_COMPUTED_WALKSPEED
    THEN previousUser.numberOfFramesWithoutMove + 1
    ELSE 0

\* a User whose rotation and speed start at 0
UntrackedUserZeroed ==
    [DefaultUser EXCEPT !.id = 0, !.isTracking = FALSE, !.rotation = 0, !.walkSpeed = 0]

\* OpenNIUtil::User user; user.id = 0; user.isTracking = false;
UntrackedUser == [DefaultUser EXCEPT !.id = 0, !.isTracking = FALSE]

\* one sample of the sensor collaborator: the tracked user (0 for none), the
\* joints createJoint reads, and the milliseconds since the previous sample
AssembleUser(frequency, previousUser, firstLoop, sample, now, nanInt) ==
    IF sample.id # 0
    THEN LET u0 == [DefaultUser EXCEPT
                       !.id = sample.id, !.isTracking = TRUE, !.timestamp = now,
                       !.leftPart = [hip |-> sample.lh, foot |-> sample.lf, shoulder |-> sample.ls],
                       !.rightPart = [hip |-> sample.rh, foot |-> sample.rf, shoulder |-> sample.rs],
                       !.torsoJoint = sample.torso,
                       !.previousLeftPart = previousUser.leftPart,
                       !.previousRightPart = previousUser.rightPart]
             u1 == rotationForUser(frequency, previousUser.rotation, u0, nanInt)
             ws == walkSpeedForUser(frequency, u1, previousUser.timestamp, previousUser.walkSpeed)
             u2 == [u1 EXCEPT
                      !.walkSpeed = ws.speed,
                      !.walkSpeedConfidence = IF ws.written THEN ws.confidence ELSE @]
         IN  IF ~firstLoop
             THEN [u2 EXCEPT !.numberOfFramesWithoutMove = FramesWithoutMove(previousUser, u2)]
             ELSE u1
    ELSE UntrackedUser

(***************************************************************************)
(* Sensor samples the model draws from                                     *)
(***************************************************************************)
\* a joint that is not active: createJoint leaves its info as it was, here
\* with a confidence and a position of an earlier use of the memory
StaleJoint == [isActive |-> FALSE, conf |-> 10, X |-> 100, Z |-> 0]

\* a joint reported with full confidence at (x, z), in units of 100 mm
P(x, z) == MkJoint(10, 100 * x, 100 * z)
\* the same with confidence 0.5: active but not acceptable
W(x, z) == MkJoint(5, 100 * x, 100 * z)

MkBody(rh, lh, t, rs, ls) == [rh |-> rh, lh |-> lh, torso |-> t, rs |-> rs, ls |-> ls]

Bodies ==
    { MkBody(P(1, 0), P(-1, 0), P(0, 0), P(1, 0), P(-1, 0)),       \* every pair at 0
      MkBody(P(-1, 0), P(1, 0), P(0, 0), P(-1, 0), P(1, 0)),       \* every pair at 180
      MkBody(P(-1, 0), P(1, 0), P(0, 0), P(-1, 1), P(1, 0)),       \* shoulders past 180
      MkBody(P(-1, 0), P(1, 0), P(0, -1), P(-1, 0), P(1, 0)),      \* torso behind the hips
      MkBody(P(1, -1), P(-1, 1), P(0, 0), P(1, -1), P(-1, 1)),     \* every pair at 45
      MkBody(P(0, 1), P(0, -1), P(0, 0), P(0, 1), P(0, -1)),       \* equal X, right.Z > left.Z
      MkBody(P(0, -1), P(0, 1), P(0, 0), P(0, -1), P(0, 1)),       \* equal X, right.Z < left.Z
      MkBody(P(1, 1), P(-1, 0), P(0, 0), P(1, 1), P(-1, 0)),       \* just below 360
      MkBody(P(1, 0), P(-1, 0), P(0, 0), P(0, 0), P(0, 0)),        \* shoulders at one place
      MkBody(W(1, 0), W(-1, 0), P(0, 0), P(1, 0), P(-1, 0)),       \* hips not acceptable
      MkBody(P(1, 0), P(-1, 0), P(0, 0), W(1, 0), W(-1, 0)),       \* shoulders not acceptable
      MkBody(StaleJoint, P(-1, 0), P(0, 0), P(1, 0), P(-1, 0)),    \* right hip not active
      MkBody(InactiveJoint, InactiveJoint, InactiveJoint, InactiveJoint, InactiveJoint) }

\* feet, in millimetres
F(c, x, z) == MkJoint(c, x, z)

MkFeet(rf, lf) == [rf |-> rf, lf |-> lf]

FeetSet ==
    { MkFeet(F(10, 100, 0), F(10, -100, 0)),
      MkFeet(F(10, 100, 10), F(10, -100, 10)),
      MkFeet(F(10, 100, 30), F(6, -100, 30)),
      MkFeet(F(10, 130, 40), F(10, -100, 0)),
      MkFeet(F(10, 100, 0), F(5, -100, 0)),
      MkFeet(InactiveJoint, F(10, -100, 0)) }

\* milliseconds between two samples: the wait returns once per sensor sample
Elapsed == {33, 50}

DefaultBody == MkBody(P(1, 0), P(-1, 0), P(0, 0), P(1, 0), P(-1, 0))
DefaultFeet == MkFeet(F(10, 100, 0), F(10, -100, 0))

MkSample(id, body, feet, dt) ==
    [id |-> id, rh |-> body.rh, lh |-> body.lh, torso |-> body.torso,
     rs |-> body.rs, ls |-> body.ls, rf |-> feet.rf, lf |-> feet.lf, dt |-> dt]

\* no user is tracked: createJoint is not called
NoUserSample(dt) == MkSample(0, DefaultBody, DefaultFeet, dt)

\* the samples of the frame specification
Samples ==
    {MkSample(1, b, DefaultFeet, 33) : b \in Bodies}
    \cup {MkSample(1, DefaultBody, ft, dt) : ft \in FeetSet, dt \in Elapsed}
    \cup {NoUserSample(33)}

\* the samples of the lifecycle specification
FewSamples ==
    { MkSample(1, DefaultBody, DefaultFeet, 33), NoUserSample(33) }

\* what the build gives static_cast<int>(NaN): 0x80000000 (SSE) or 0 (ARM)
NaNCast == {IntMin, 0}

(***************************************************************************)
(* The application object, its threads and its collaborators               *)
(***************************************************************************)
VARIABLES
    frequency,      \* _frequency
    useAKinect,     \* _useAKinect
    init,           \* _init
    started,        \* _started
    stopped,        \* _stopped
    stopRequested,  \* _stopRequested
    mutex,          \* owner of _startedMutex, _stoppedMutex, _stopRequestedMutex
    pc,             \* where the loop thread ("main") and the controlling thread ("ctrl") are
    handles,        \* _depthMemory, _infoMemory, _sensor.nodeInfo
    sensor,         \* the context and its generators: none, ready, generating, released
    firstLoop,      \* start()'s local
    previousUser,   \* the loop's local
    camUser,        \* _sensor.camInfo.user
    depthData,      \* _sensor.depthMaps.depthData: the frame whose buffer it points to
    copyIdx,        \* the depth copy's i
    frameNo,        \* samples the wait has delivered
    clock,          \* milliseconds of the clock the loop reads
    regionLock,     \* owner of the depth and the info region's lock
    depthRegion,    \* the depth region: per sample, the frame it was copied from
    infoRegion,     \* the info region: the record and the frame it was assembled in
    calibrating,    \* users the sensor has a calibration request for
    tracking,       \* users the sensor has a tracking request for
    ghost           \* history the properties are stated on

vars == << frequency, useAKinect, init, started, stopped, stopRequested, mutex, pc, handles, sensor,
           firstLoop, previousUser, camUser, depthData, copyIdx, frameNo, clock,
           regionLock, depthRegion, infoRegion, calibrating, tracking, ghost >>

ctorVars == << frequency, useAKinect >>
flagVars == << init, started, stopped, stopRequested >>
frameVars == << firstLoop, previousUser, camUser, depthData, copyIdx, frameNo, clock >>
regionVars == << regionLock, depthRegion, infoRegion >>
userVars == << calibrating, tracking >>

UserIds == {1, 2}

\* depth content that is no frame's buffer (read through a dangling pointer)
Junk == 0 - 1

InitGhost ==
    [ startCalled |-> FALSE,
      lastInit |-> [point |-> "none", code |-> 0],
      initOk |-> FALSE,
      lastStart |-> 0 - 1,
      stopSetBeforeStart |-> FALSE,
      cleanups |-> {},
      event |-> [kind |-> "none", id |-> 0, status |-> "none", started |-> FALSE, cmd |-> "none"],
      destructor |-> [faults |-> {}, outcome |-> "none"] ]

\* the flags of a constructed object: the class declaration gives the members
\* their defaults, and the lifecycle the specification describes starts with
\* none of them set
FlagDefaults == [init |-> FALSE, started |-> FALSE, stopped |-> FALSE, stopRequested |-> FALSE]

\* the object after its constructor, for the given choices of useAKinect
Constructed(kinects) ==
    /\ frequency \in FewFreqs
    /\ useAKinect \in kinects
    /\ init = FlagDefaults.init /\ started = FlagDefaults.started
    /\ stopped = FlagDefaults.stopped /\ stopRequested = FlagDefaults.stopRequested
    /\ mutex = [started |-> "free", stopped |-> "free", stopRequested |-> "free"]
    /\ pc = [main |-> "idle", ctrl |-> "idle"]
    /\ handles = [depthMemory |-> "null", infoMemory |-> "null", kinectUSB |-> "null",
                  nodeInfo |-> FALSE]
    /\ sensor = "none"
    /\ firstLoop = TRUE
    /\ previousUser = DefaultUser
    /\ camUser = DefaultUser
    /\ depthData = 0
    /\ copyIdx = 0
    /\ frameNo = 0
    /\ clock = 0
    /\ regionLock = [depth |-> "free", info |-> "free"]
    /\ depthRegion = [i \in 1..DepthLen |-> 0]
    /\ infoRegion = [user |-> DefaultUser, frame |-> 0]
    /\ calibrating = {}
    /\ tracking = {}
    /\ ghost = InitGhost

\* the lifecycle specifications construct the object with a Kinect
Init == Constructed({TRUE})

Goto(t, where) == pc' = [pc EXCEPT ![t] = where]
Acquire(m, t) == mutex[m] = "free" /\ mutex' = [mutex EXCEPT ![m] = t]
Release(m) == mutex' = [mutex EXCEPT ![m] = "free"]

(***************************************************************************)
(* init()                                                                  *)
(***************************************************************************)
\* the status the sensor collaborator reports for a failing call
SdkStatus == {65537, 65538}

\* the returns of init() in the order the code reaches them
SdkPoints == {"context_init", "enumerate", "create_device", "create_depth", "create_user",
              "register_callbacks"}
FixedPoints == {"depth_attach", "info_attach", "no_skeleton", "need_pose", "not_found"}

\* init() with one code for both attach failures
InitCodeShared(point, status) ==
    CASE point = "double_init" -> 1
      [] point \in {"depth_attach", "info_attach"} -> 10
      [] point \in SdkPoints -> status
      [] point = "no_skeleton" -> 20
      [] point = "need_pose" -> 30
      [] point = "not_found" -> 4
      [] OTHER -> 0

\* the value init() returns at a failure point; status is what the failing
\* sensor call reported (CHECK_ERROR returns it)
InitCode(point, status) ==
    CASE point = "double_init" -> 1
      [] point = "depth_attach" -> 10
      [] point = "info_attach" -> 11
      [] point \in SdkPoints -> status
      [] point = "no_skeleton" -> 20
      [] point = "need_pose" -> 30
      [] point = "not_found" -> 4
      [] OTHER -> 0

\* the handles init() has set when it returns at a point
HandlesAt(point, h) ==
    CASE point = "depth_attach" -> [h EXCEPT !.depthMemory = "created"]
      [] point = "info_attach" -> [h EXCEPT !.depthMemory = "attached", !.infoMemory = "created"]
      [] point \in {"context_init", "enumerate", "not_found"} ->
             [h EXCEPT !.depthMemory = "attached", !.infoMemory = "attached"]
      [] OTHER -> [h EXCEPT !.depthMemory = "attached", !.infoMemory = "attached",
                            !.nodeInfo = TRUE]

SensorAt(point, s) ==
    IF point \in {"depth_attach", "info_attach", "context_init"} THEN s
    ELSE IF point = "ok" THEN "ready"
    ELSE "partial"

\* a second init() that attaches the depth region again before it returns 1
InitTwiceReattaches ==
    /\ pc.main = "idle"
    /\ init
    /\ handles' = [handles EXCEPT !.depthMemory = "created"]
    /\ ghost' = [ghost EXCEPT !.lastInit = [point |-> "double_init",
                                             code |-> InitCode("double_init", 0)]]
    /\ UNCHANGED << ctorVars, flagVars, mutex, pc, sensor, frameVars, regionVars, userVars >>

\* if(_init) return 1;
InitTwice ==
    /\ pc.main = "idle"
    /\ init
    /\ ghost' = [ghost EXCEPT !.lastInit = [point |-> "double_init",
                                             code |-> InitCode("double_init", 0)]]
    /\ UNCHANGED << ctorVars, flagVars, mutex, pc, handles, sensor, frameVars, regionVars, userVars >>

InitCall ==
    /\ pc.main = "idle"
    /\ ~init
    /\ Goto("main", "init_body")
    /\ UNCHANGED << ctorVars, flagVars, mutex, handles, sensor, frameVars, regionVars, userVars, ghost >>

\* init() returns at a failure point
InitFail ==
    /\ pc.main = "init_body"
    /\ \E point \in SdkPoints \cup FixedPoints, status \in SdkStatus :
          \* the device is in the list or not; nodeInfo keeps an earlier call's value
          /\ point = "not_found" => ~handles.nodeInfo
          /\ handles' = HandlesAt(point, handles)
          /\ sensor' = SensorAt(point, sensor)
          /\ ghost' = [ghost EXCEPT !.lastInit = [point |-> point, code |-> InitCode(point, status)]]
    /\ Goto("main", "idle")
    /\ UNCHANGED << ctorVars, flagVars, mutex, frameVars, regionVars, userVars >>

\* init() reaches _init = true
InitPass ==
    /\ pc.main = "init_body"
    /\ handles' = [HandlesAt("ok", handles) EXCEPT
                       !.kinectUSB = IF useAKinect THEN "created" ELSE @]
    /\ sensor' = SensorAt("ok", sensor)
    /\ Goto("main", "init_set")
    /\ UNCHANGED << ctorVars, flagVars, mutex, frameVars, regionVars, userVars, ghost >>

\* _init = true; return status;
InitSet ==
    /\ pc.main = "init_set"
    /\ init' = TRUE
    /\ ghost' = [ghost EXCEPT !.lastInit = [point |-> "ok", code |-> InitCode("ok", 0)],
                              !.initOk = TRUE]
    /\ Goto("main", "idle")
    /\ UNCHANGED << ctorVars, started, stopped, stopRequested, mutex, handles, sensor,
                    frameVars, regionVars, userVars >>

(***************************************************************************)
(* start() and the frame loop                                              *)
(***************************************************************************)
\* the context and both generators are live: a sensor call returns data
SensorValid == sensor \in {"ready", "generating"}

\* start() without the test of _init
StartUnchecked ==
    /\ pc.main = "idle"
    /\ ~init
    /\ Goto("main", "start_gen")
    /\ ghost' = [ghost EXCEPT !.startCalled = TRUE]
    /\ UNCHANGED << ctorVars, flagVars, mutex, handles, sensor, frameVars, regionVars, userVars >>

\* if(!_init) return 5;
StartRefused ==
    /\ pc.main = "idle"
    /\ ~init
    /\ ghost' = [ghost EXCEPT !.startCalled = TRUE, !.lastStart = 5]
    /\ UNCHANGED << ctorVars, flagVars, mutex, pc, handles, sensor, frameVars, regionVars, userVars >>

StartCall ==
    /\ pc.main = "idle"
    /\ init
    /\ Goto("main", "start_gen")
    /\ ghost' = [ghost EXCEPT !.startCalled = TRUE]
    /\ UNCHANGED << ctorVars, flagVars, mutex, handles, sensor, frameVars, regionVars, userVars >>

\* _context.StartGeneratingAll() fails: CHECK_ERROR returns its status
StartGenerateFail ==
    /\ pc.main = "start_gen"
    /\ \E status \in SdkStatus : ghost' = [ghost EXCEPT !.lastStart = status]
    /\ Goto("main", "idle")
    /\ UNCHANGED << ctorVars, flagVars, mutex, handles, sensor, frameVars, regionVars, userVars >>

\* _context.StartGeneratingAll() returns XN_STATUS_OK; bool firstLoop = true
StartGenerate ==
    /\ pc.main = "start_gen"
    /\ sensor' = IF SensorValid THEN "generating" ELSE sensor
    /\ firstLoop' = TRUE
    /\ Goto("main", "loop_lock")
    /\ UNCHANGED << ctorVars, flagVars, mutex, handles, previousUser, camUser, depthData,
                    copyIdx, frameNo, clock, regionVars, userVars, ghost >>

\* _stopRequestedMutex.lock()
LoopLock ==
    /\ pc.main = "loop_lock"
    /\ Acquire("stopRequested", "main")
    /\ Goto("main", "loop_check")
    /\ UNCHANGED << ctorVars, flagVars, handles, sensor, frameVars, regionVars, userVars, ghost >>

\* the loop left without the call of cleanup()
LoopStopSkipsCleanup ==
    /\ pc.main = "loop_check"
    /\ stopRequested
    /\ Release("stopRequested")
    /\ Goto("main", "idle")
    /\ ghost' = [ghost EXCEPT !.lastStart = 0]
    /\ UNCHANGED << ctorVars, flagVars, handles, sensor, frameVars, regionVars, userVars >>

\* if(_stopRequested) { unlock; cleanup(); break; }
LoopStop ==
    /\ pc.main = "loop_check"
    /\ stopRequested
    /\ Release("stopRequested")
    /\ Goto("main", "cleanup_release")
    /\ UNCHANGED << ctorVars, flagVars, handles, sensor, frameVars, regionVars, userVars, ghost >>

\* unlock; previousUser = camInfo.user; camInfo and depthMaps reset; the
\* thread then blocks in WaitAnyUpdateAll
LoopContinue ==
    /\ pc.main = "loop_check"
    /\ ~stopRequested
    /\ frameNo < MaxFrames
    /\ Release("stopRequested")
    /\ previousUser' = camUser
    /\ camUser' = DefaultUser
    /\ depthData' = 0
    /\ Goto("main", "loop_wait")
    /\ UNCHANGED << ctorVars, flagVars, handles, sensor, firstLoop, copyIdx, frameNo, clock,
                    regionVars, userVars, ghost >>

\* no copy in the first iteration: started is set first
AfterFrameSkipsFirstCopies ==
    IF firstLoop THEN "first_lock"
    ELSE IF handles.depthMemory = "attached" THEN "depth_lock"
    ELSE IF handles.infoMemory = "attached" THEN "info_lock"
    ELSE "loop_lock"

\* the info region written first
AfterFrameInfoFirst == IF handles.infoMemory = "attached" THEN "info_lock"
                       ELSE IF firstLoop THEN "first_lock" ELSE "loop_lock"

\* where the loop goes once the User is assembled
AfterFrame == IF handles.depthMemory = "attached" THEN "depth_lock"
              ELSE IF handles.infoMemory = "attached" THEN "info_lock"
              ELSE IF firstLoop THEN "first_lock" ELSE "loop_lock"

\* WaitAnyUpdateAll returns; the depth map and the joints are read and the
\* User is assembled.  With the sensor released the calls return whatever
\* the dead handles give: any sample, and a depth pointer to no frame.
LoopFrame(S) ==
    /\ pc.main = "loop_wait"
    /\ \E sample \in S, nanInt \in NaNCast :
          /\ clock' = clock + sample.dt
          /\ camUser' = AssembleUser(frequency, previousUser, firstLoop, sample, clock', nanInt)
    /\ frameNo' = frameNo + 1
    /\ depthData' = IF SensorValid THEN frameNo' ELSE Junk
    /\ Goto("main", AfterFrame)
    /\ UNCHANGED << ctorVars, flagVars, mutex, handles, sensor, firstLoop, previousUser,
                    copyIdx, regionVars, userVars, ghost >>

\* _depthMemory->lock()
DepthLock ==
    /\ pc.main = "depth_lock"
    /\ regionLock.depth = "free"
    /\ regionLock' = [regionLock EXCEPT !.depth = "main"]
    /\ copyIdx' = 1
    /\ Goto("main", "depth_copy")
    /\ UNCHANGED << ctorVars, flagVars, mutex, handles, sensor, firstLoop, previousUser,
                    camUser, depthData, frameNo, clock, depthRegion, infoRegion, userVars, ghost >>

\* mem[i] = _sensor.depthMaps.depthData[i]: the buffer belongs to the depth
\* generator, and a released generator's buffer holds the frame or anything
DepthCopy ==
    /\ pc.main = "depth_copy"
    /\ \E v \in (IF SensorValid THEN {depthData} ELSE {depthData, Junk}) :
          depthRegion' = [depthRegion EXCEPT ![copyIdx] = v]
    /\ copyIdx' = copyIdx + 1
    /\ Goto("main", IF copyIdx = DepthLen THEN "depth_unlock" ELSE "depth_copy")
    /\ UNCHANGED << ctorVars, flagVars, mutex, handles, sensor, firstLoop, previousUser,
                    camUser, depthData, frameNo, clock, regionLock, infoRegion, userVars, ghost >>

\* the depth region's lock kept across the info copy
DepthUnlockKeepsLock ==
    /\ pc.main = "depth_unlock"
    /\ Goto("main", IF handles.infoMemory = "attached" THEN "info_lock"
                    ELSE IF firstLoop THEN "first_lock" ELSE "loop_lock")
    /\ UNCHANGED << ctorVars, flagVars, mutex, handles, sensor, frameVars, regionVars,
                    userVars, ghost >>

\* _depthMemory->unlock()
DepthUnlock ==
    /\ pc.main = "depth_unlock"
    /\ regionLock' = [regionLock EXCEPT !.depth = "free"]
    /\ Goto("main", IF handles.infoMemory = "attached" THEN "info_lock"
                    ELSE IF firstLoop THEN "first_lock" ELSE "loop_lock")
    /\ UNCHANGED << ctorVars, flagVars, mutex, handles, sensor, frameVars, depthRegion,
                    infoRegion, userVars, ghost >>

\* _infoMemory->lock()
InfoLock ==
    /\ pc.main = "info_lock"
    /\ regionLock.info = "free"
    /\ regionLock' = [regionLock EXCEPT !.info = "main"]
    /\ Goto("main", "info_copy")
    /\ UNCHANGED << ctorVars, flagVars, mutex, handles, sensor, frameVars, depthRegion,
                    infoRegion, userVars, ghost >>

\* *mem = _sensor.camInfo; _infoMemory->unlock()
InfoCopy ==
    /\ pc.main = "info_copy"
    /\ infoRegion' = [user |-> camUser, frame |-> frameNo]
    /\ regionLock' = [regionLock EXCEPT !.info = "free"]
    /\ Goto("main", IF firstLoop THEN "first_lock" ELSE "loop_lock")
    /\ UNCHANGED << ctorVars, flagVars, mutex, handles, sensor, frameVars, depthRegion,
                    userVars, ghost >>

\* if(firstLoop) _startedMutex.lock()
FirstLock ==
    /\ pc.main = "first_lock"
    /\ Acquire("started", "main")
    /\ Goto("main", "first_set")
    /\ UNCHANGED << ctorVars, flagVars, handles, sensor, frameVars, regionVars, userVars, ghost >>

\* firstLoop = false; _started = true; _startedMutex.unlock()
FirstSet ==
    /\ pc.main = "first_set"
    /\ firstLoop' = FALSE
    /\ started' = TRUE
    /\ Release("started")
    /\ Goto("main", "loop_lock")
    /\ UNCHANGED << ctorVars, init, stopped, stopRequested, handles, sensor, previousUser,
                    camUser, depthData, copyIdx, frameNo, clock, regionVars, userVars, ghost >>

(***************************************************************************)
(* cleanup(), run by the loop (thread main) or by requestStop (thread ctrl)*)
(***************************************************************************)
Threads == {"main", "ctrl"}

\* depthGenerator.Release(); userGenerator.Release(); _context.Release()
CleanupRelease ==
    \E t \in Threads :
        /\ pc[t] = "cleanup_release"
        /\ sensor' = "released"
        /\ ghost' = [ghost EXCEPT !.cleanups = @ \cup {t}]
        /\ Goto(t, "cleanup_lock")
        /\ UNCHANGED << ctorVars, flagVars, mutex, handles, frameVars, regionVars, userVars >>

\* _stoppedMutex.lock()
CleanupLock ==
    \E t \in Threads :
        /\ pc[t] = "cleanup_lock"
        /\ Acquire("stopped", t)
        /\ Goto(t, "cleanup_set")
        /\ UNCHANGED << ctorVars, flagVars, handles, sensor, frameVars, regionVars, userVars, ghost >>

\* _stopped = true; _stoppedMutex.unlock(); the caller returns (start()
\* breaks out of the loop and returns status)
CleanupSet ==
    \E t \in Threads :
        /\ pc[t] = "cleanup_set"
        /\ stopped' = TRUE
        /\ Release("stopped")
        /\ Goto(t, "idle")
        /\ ghost' = IF t = "main" THEN [ghost EXCEPT !.lastStart = 0] ELSE ghost
        /\ UNCHANGED << ctorVars, init, started, stopRequested, handles, sensor, frameVars,
                        regionVars, userVars >>

(***************************************************************************)
(* ~OpenNIApplication()                                                    *)
(***************************************************************************)
\* the pointers the destructor calls through
DestructorUses ==
    {"depthMemory", "infoMemory"} \cup (IF useAKinect THEN {"kinectUSB"} ELSE {})

\* cleanup(); the motor accessory switched off and deleted; both regions
\* detached and deleted.  A call through a pointer init() has not set is
\* undefined: the destructor returns or the process dies.
Destroy ==
    /\ pc = [main |-> "idle", ctrl |-> "idle"]
    /\ sensor' = "released"
    /\ stopped' = TRUE
    /\ LET faults == {h \in DestructorUses : handles[h] = "null"}
       IN  \E outcome \in (IF faults = {} THEN {"returned"} ELSE {"returned", "crashed"}) :
              ghost' = [ghost EXCEPT !.cleanups = @ \cup {"main"},
                                     !.destructor = [faults |-> faults, outcome |-> outcome]]
    /\ handles' = [h \in DOMAIN handles |->
                      IF h \in DestructorUses /\ handles[h] # "null" THEN "deleted"
                      ELSE handles[h]]
    /\ pc' = [main |-> "destroyed", ctrl |-> "destroyed"]
    /\ UNCHANGED << ctorVars, init, started, stopRequested, mutex, frameVars, regionVars,
                    userVars >>

(***************************************************************************)
(* requestStop() and the status queries, called by another thread          *)
(***************************************************************************)
\* requestStop(): _stopRequestedMutex.lock()
StopLock ==
    /\ pc.ctrl = "idle"
    /\ Acquire("stopRequested", "ctrl")
    /\ Goto("ctrl", "rs_set")
    /\ UNCHANGED << ctorVars, flagVars, handles, sensor, frameVars, regionVars, userVars, ghost >>

\* _stopRequested = true; _stopRequestedMutex.unlock()
StopSet ==
    /\ pc.ctrl = "rs_set"
    /\ stopRequested' = TRUE
    /\ Release("stopRequested")
    /\ Goto("ctrl", "rs_started_lock")
    /\ ghost' = [ghost EXCEPT !.stopSetBeforeStart = @ \/ ~ghost.startCalled]
    /\ UNCHANGED << ctorVars, init, started, stopped, handles, sensor, frameVars, regionVars,
                    userVars >>

\* isStarted(): _startedMutex.lock()
StopStartedLock ==
    /\ pc.ctrl = "rs_started_lock"
    /\ Acquire("started", "ctrl")
    /\ Goto("ctrl", "rs_started_read")
    /\ UNCHANGED << ctorVars, flagVars, handles, sensor, frameVars, regionVars, userVars, ghost >>

\* requestStop() that always leaves the cleanup to the loop
requestStopDeferred(isStarted) == "idle"

\* what requestStop() does with the value isStarted() returned
requestStopNext(isStarted) == IF ~isStarted THEN "cleanup_release" ELSE "idle"

\* const bool started = _started; unlock; if(!isStarted()) cleanup();
StopStartedRead ==
    /\ pc.ctrl = "rs_started_read"
    /\ Release("started")
    /\ Goto("ctrl", requestStopNext(started))
    /\ UNCHANGED << ctorVars, flagVars, handles, sensor, frameVars, regionVars, userVars, ghost >>

\* isStarted() / isStopped(): lock the flag's mutex
QueryLock ==
    \E m \in {"started", "stopped"} :
        /\ pc.ctrl = "idle"
        /\ Acquire(m, "ctrl")
        /\ Goto("ctrl", IF m = "started" THEN "q_started_read" ELSE "q_stopped_read")
        /\ UNCHANGED << ctorVars, flagVars, handles, sensor, frameVars, regionVars, userVars, ghost >>

\* read the flag, unlock, return it
QueryRead ==
    \E m \in {"started", "stopped"} :
        /\ pc.ctrl = (IF m = "started" THEN "q_started_read" ELSE "q_stopped_read")
        /\ Release(m)
        /\ Goto("ctrl", "idle")
        /\ UNCHANGED << ctorVars, flagVars, handles, sensor, frameVars, regionVars, userVars, ghost >>

\* isInitialized() is entered: it takes no lock
QueryInitCall ==
    /\ pc.ctrl = "idle"
    /\ Goto("ctrl", "q_init_read")
    /\ UNCHANGED << ctorVars, flagVars, mutex, handles, sensor, frameVars, regionVars, userVars, ghost >>

\* return _init;
QueryInitRead ==
    /\ pc.ctrl = "q_init_read"
    /\ Goto("ctrl", "idle")
    /\ UNCHANGED << ctorVars, flagVars, mutex, handles, sensor, frameVars, regionVars, userVars, ghost >>

(***************************************************************************)
(* The consumer process: it reads a region under the region's lock         *)
(***************************************************************************)
ObsLock ==
    \E r \in {"depth", "info"} :
        /\ regionLock[r] = "free"
        /\ regionLock' = [regionLock EXCEPT ![r] = "obs"]
        /\ UNCHANGED << ctorVars, flagVars, mutex, pc, handles, sensor, frameVars,
                        depthRegion, infoRegion, userVars, ghost >>

ObsUnlock ==
    \E r \in {"depth", "info"} :
        /\ regionLock[r] = "obs"
        /\ regionLock' = [regionLock EXCEPT ![r] = "free"]
        /\ UNCHANGED << ctorVars, flagVars, mutex, pc, handles, sensor, frameVars,
                        depthRegion, infoRegion, userVars, ghost >>

(***************************************************************************)
(* Callbacks of the sensor collaborator                                    *)
(***************************************************************************)
\* startCalibration: the code returned and whether RequestCalibration is sent
startCalibration(isStarted) ==
    IF isStarted THEN [code |-> 0, cmd |-> "calibrate"] ELSE [code |-> 100, cmd |-> "none"]

\* startTracking: the code returned and whether StartTracking is sent
startTracking(isStarted) ==
    IF isStarted THEN [code |-> 0, cmd |-> "track"] ELSE [code |-> 101, cmd |-> "none"]

\* newUserCallback: the command sent to the sensor
newUserCallback(isStarted) == startCalibration(isStarted).cmd

\* calibrationEndCallback that tracks whatever the status
calibrationEndTracksAnyway(calibrationStatus, isStarted) == startTracking(isStarted).cmd

\* calibrationEndCallback: the command sent to the sensor
calibrationEndCallback(calibrationStatus, isStarted) ==
    IF calibrationStatus = "ok" THEN startTracking(isStarted).cmd
    ELSE IF calibrationStatus = "manual_abort" THEN "none"
    ELSE startCalibration(isStarted).cmd

CalibrationStatuses == {"ok", "manual_abort", "fail"}

\* the sensor delivers callbacks while its generators generate; the handlers
\* read _started under _startedMutex
CanDeliver == sensor = "generating" /\ mutex.started = "free"

Apply(cmd, userID) ==
    /\ calibrating' = IF cmd = "calibrate" THEN calibrating \cup {userID}
                      ELSE calibrating \ {userID}
    /\ tracking' = IF cmd = "track" THEN tracking \cup {userID} ELSE tracking

NewUser ==
    \E userID \in UserIds :
        /\ CanDeliver
        /\ userID \notin calibrating \cup tracking
        /\ LET cmd == newUserCallback(started)
           IN  /\ Apply(cmd, userID)
               /\ ghost' = [ghost EXCEPT
                               !.event = [kind |-> "new_user", id |-> userID, status |-> "none",
                                          started |-> started, cmd |-> cmd]]
        /\ UNCHANGED << ctorVars, flagVars, mutex, pc, handles, sensor, frameVars, regionVars >>

CalibrationEnd ==
    \E userID \in calibrating, calibrationStatus \in CalibrationStatuses :
        /\ CanDeliver
        /\ LET cmd == calibrationEndCallback(calibrationStatus, started)
           IN  /\ Apply(cmd, userID)
               /\ ghost' = [ghost EXCEPT
                               !.event = [kind |-> "calibration_end", id |-> userID,
                                          status |-> calibrationStatus,
                                          started |-> started, cmd |-> cmd]]
        /\ UNCHANGED << ctorVars, flagVars, mutex, pc, handles, sensor, frameVars, regionVars >>

\* lostUserCallback only logs
LostUser ==
    \E userID \in calibrating \cup tracking :
        /\ CanDeliver
        /\ calibrating' = calibrating \ {userID}
        /\ tracking' = tracking \ {userID}
        /\ ghost' = [ghost EXCEPT
                        !.event = [kind |-> "lost_user", id |-> userID, status |-> "none",
                                   started |-> started, cmd |-> "none"]]
        /\ UNCHANGED << ctorVars, flagVars, mutex, pc, handles, sensor, frameVars, regionVars >>

(***************************************************************************)
(* Specifications                                                          *)
(***************************************************************************)
\* the lifecycle: init(), start(), the loop, requestStop(), the queries and
\* the consumer
Next ==
    \/ InitTwice \/ InitCall \/ InitFail \/ InitPass \/ InitSet
    \/ StartRefused \/ StartCall \/ StartGenerateFail \/ StartGenerate
    \/ LoopLock \/ LoopStop \/ LoopContinue \/ LoopFrame(FewSamples)
    \/ DepthLock \/ DepthCopy \/ DepthUnlock \/ InfoLock \/ InfoCopy
    \/ FirstLock \/ FirstSet
    \/ CleanupRelease \/ CleanupLock \/ CleanupSet
    \/ StopLock \/ StopSet \/ StopStartedLock \/ StopStartedRead
    \/ QueryLock \/ QueryRead \/ QueryInitCall \/ QueryInitRead
    \/ ObsLock \/ ObsUnlock

Spec == Init /\ [][Next]_vars

\* a step of start() once it has been called, and a step of the call the
\* controlling thread is in: requestStop() once it holds the stop flag's
\* mutex, a status query once it holds its mutex
StartStep ==
    /\ \/ StartGenerateFail \/ StartGenerate
       \/ LoopLock \/ LoopStop \/ LoopContinue \/ LoopFrame(FewSamples)
       \/ DepthLock \/ DepthCopy \/ DepthUnlock \/ InfoLock \/ InfoCopy
       \/ FirstLock \/ FirstSet
       \/ CleanupRelease \/ CleanupLock \/ CleanupSet
    /\ << pc'.main, copyIdx' >> # << pc.main, copyIdx >>

CallerStep ==
    /\ \/ StopSet \/ StopStartedLock \/ StopStartedRead
       \/ CleanupRelease \/ CleanupLock \/ CleanupSet
       \/ QueryRead \/ QueryInitRead
    /\ pc'.ctrl # pc.ctrl

\* the lifecycle with threads that run: a thread that can step infinitely
\* often does step (the wait for sensor data returns, a lock() on a mutex
\* that keeps being released is granted), and the consumer unlocks the
\* region it has locked
LiveSpec ==
    /\ Init /\ [][Next]_vars
    /\ SF_vars(StartStep) /\ SF_vars(CallerStep)
    /\ \A r \in {"depth", "info"} : WF_vars(ObsUnlock /\ regionLock'[r] # regionLock[r])

\* the lifecycle of an object built with or without a Kinect, up to its
\* destruction
DestroyInit == Constructed(BOOLEAN)

DestroyNext ==
    \/ InitTwice \/ InitCall \/ InitFail \/ InitPass \/ InitSet
    \/ StartRefused \/ StartCall \/ StartGenerateFail \/ StartGenerate
    \/ LoopLock \/ LoopStop \/ LoopContinue \/ LoopFrame(FewSamples)
    \/ DepthLock \/ DepthCopy \/ DepthUnlock \/ InfoLock \/ InfoCopy
    \/ FirstLock \/ FirstSet
    \/ CleanupRelease \/ CleanupLock \/ CleanupSet
    \/ StopLock \/ StopSet \/ StopStartedLock \/ StopStartedRead
    \/ Destroy

DestroySpec == DestroyInit /\ [][DestroyNext]_vars

\* the lifecycle with the sensor's callbacks
CallbackNext ==
    \/ InitCall \/ InitFail \/ InitPass \/ InitSet
    \/ StartCall \/ StartGenerateFail \/ StartGenerate
    \/ LoopLock \/ LoopStop \/ LoopContinue \/ LoopFrame(FewSamples)
    \/ DepthLock \/ DepthCopy \/ DepthUnlock \/ InfoLock \/ InfoCopy
    \/ FirstLock \/ FirstSet
    \/ CleanupRelease \/ CleanupLock \/ CleanupSet
    \/ StopLock \/ StopSet \/ StopStartedLock \/ StopStartedRead
    \/ NewUser \/ CalibrationEnd \/ LostUser

CallbackSpec == Init /\ [][CallbackNext]_vars

\* the frame loop alone, from the state start() enters it in, over every
\* frequency and every sample
FrameInit ==
    /\ frequency \in Freqs
    /\ useAKinect = TRUE
    /\ init = TRUE /\ started = FALSE /\ stopped = FALSE /\ stopRequested = FALSE
    /\ mutex = [started |-> "free", stopped |-> "free", stopRequested |-> "free"]
    /\ pc = [main |-> "loop_lock", ctrl |-> "idle"]
    /\ handles = [depthMemory |-> "attached", infoMemory |-> "attached",
                  kinectUSB |-> "created", nodeInfo |-> TRUE]
    /\ sensor = "generating"
    /\ firstLoop = TRUE
    /\ previousUser = DefaultUser
    /\ camUser = DefaultUser
    /\ depthData = 0
    /\ copyIdx = 0
    /\ frameNo = 0
    /\ clock = 0
    /\ regionLock = [depth |-> "free", info |-> "free"]
    /\ depthRegion = [i \in 1..DepthLen |-> 0]
    /\ infoRegion = [user |-> DefaultUser, frame |-> 0]
    /\ calibrating = {}
    /\ tracking = {}
    /\ ghost = [InitGhost EXCEPT !.startCalled = TRUE, !.initOk = TRUE,
                                 !.lastInit = [point |-> "ok", code |-> 0]]

FrameNext ==
    \/ LoopLock \/ LoopContinue \/ LoopFrame(Samples)
    \/ DepthLock \/ DepthCopy \/ DepthUnlock \/ InfoLock \/ InfoCopy
    \/ FirstLock \/ FirstSet

FrameSpec == FrameInit /\ [][FrameNext]_vars

(***************************************************************************)
(* Properties of the frame computation (FrameSpec)                         *)
(***************************************************************************)
\* the distance of two angles of [0,360) across the 0/360 wrap
WrapDistance(a, b) == IF Abs(a - b) <= 180 THEN Abs(a - b) ELSE 360 - Abs(a - b)

Degrees == 0..359

\* C1: in a tracked frame that follows a frame with a defined rotation, the
\* published rotation is in [0,360) and is at most 55/f degrees away from the
\* previous one, measured across the wrap
C1_RotationStepBounded ==
    (camUser.isTracking /\ previousUser.rotation # -1 /\ camUser.rotation # -1)
        => /\ camUser.rotation \in Degrees
           /\ previousUser.rotation \in Degrees
           /\ WrapDistance(camUser.rotation, previousUser.rotation) * frequency
                  <= MaxRotationPerSecond

FramePcs == {"loop_wait", "depth_lock", "depth_copy", "depth_unlock", "info_lock",
             "info_copy", "first_lock", "first_set"}

CleanupPcs == {"cleanup_release", "cleanup_lock", "cleanup_set"}

RequestStopPcs == {"rs_set", "rs_started_lock", "rs_started_read"} \cup CleanupPcs

\* C3: when requestStop() has set the stop flag before any call of start(),
\* requestStop() runs cleanup itself and has set stopped when it returns, and
\* no loop iteration ever runs: no wait, no frame, no region write, also when
\* start() is called later
C3_StopBeforeStart ==
    ghost.stopSetBeforeStart =>
        /\ pc.ctrl \notin RequestStopPcs => (stopped /\ "ctrl" \in ghost.cleanups)
        /\ pc.main \notin FramePcs
        /\ frameNo = 0
        /\ depthRegion = [i \in 1..DepthLen |-> 0]
        /\ infoRegion = [user |-> DefaultUser, frame |-> 0]

\* requestStop() came first, and a later start() has returned from the loop
C3_StartAfterStop ==
    /\ ghost.stopSetBeforeStart
    /\ init
    /\ ghost.startCalled
    /\ ghost.lastStart = 0
    /\ pc.main = "idle"
    /\ pc.ctrl = "idle"

\* C4: while the loop thread is inside an iteration, requestStop() in the
\* other thread never runs cleanup and the sensor's handles are not released
C4_NoCleanupMidFrame ==
    pc.main \in FramePcs => (pc.ctrl \notin CleanupPcs /\ sensor # "released")

\* C5: the info region never holds the record of a frame newer than a buffer
\* the depth region holds; the info copy starts once every sample of the
\* depth region is the current frame's, and during an iteration's two copies
\* the info region holds the record of the iteration before
C5_InfoNeverNewerThanDepth ==
    /\ \A i \in 1..DepthLen : depthRegion[i] = Junk \/ depthRegion[i] >= infoRegion.frame
    /\ pc.main = "info_copy" => \A i \in 1..DepthLen : depthRegion[i] \in {frameNo, Junk}
    /\ pc.main \in {"depth_copy", "depth_unlock", "info_lock", "info_copy"}
          => infoRegion.frame = frameNo - 1

\* the consumer holds both regions between the two copies of the second frame
C5_ObserverBetweenCopies ==
    /\ regionLock = [depth |-> "obs", info |-> "obs"]
    /\ pc.main = "info_lock"
    /\ frameNo = 2
    /\ infoRegion.frame = 1
    /\ \A i \in 1..DepthLen : depthRegion[i] = 2

\* C6: the loop never holds both region locks, holds each exactly during the
\* copy into its region, and holds none while it waits for sensor data
C6_RegionLocksScoped ==
    /\ ~(regionLock.depth = "main" /\ regionLock.info = "main")
    /\ regionLock.depth = "main" <=> pc.main \in {"depth_copy", "depth_unlock"}
    /\ regionLock.info = "main" <=> pc.main = "info_copy"
    /\ pc.main = "loop_wait" => (regionLock.depth # "main" /\ regionLock.info # "main")

\* the loop copies into the info region while the consumer reads the depth region
C6_InfoCopyWhileDepthRead ==
    /\ pc.main = "info_copy"
    /\ regionLock = [depth |-> "obs", info |-> "main"]
    /\ frameNo = 2

\* the flag a thread reads or writes at its position
AccessedFlag(t) ==
    CASE pc[t] \in {"q_init_read", "init_set"} -> "init"
      [] pc[t] \in {"q_started_read", "rs_started_read", "first_set"} -> "started"
      [] pc[t] \in {"q_stopped_read", "cleanup_set"} -> "stopped"
      [] OTHER -> "none"

\* the thread that holds a flag's mutex; _init has none
Holder(flag) == IF flag \in DOMAIN mutex THEN mutex[flag] ELSE "nobody"

\* C7: a thread reads or writes the initialized, the started or the stopped
\* flag only while it holds that flag's own lock
C7_FlagsAccessedUnderLock ==
    \A t \in Threads : AccessedFlag(t) # "none" => Holder(AccessedFlag(t)) = t

(***************************************************************************)
(* Properties of the callbacks (CallbackSpec)                              *)
(***************************************************************************)
\* C8: the last event delivered was answered: a new user by a calibration
\* request for its id, a successful calibration by a tracking request for
\* its id
C8_EventsAnswered ==
    /\ ghost.event.kind = "new_user"
          => (ghost.event.cmd = "calibrate" /\ ghost.event.id \in calibrating)
    /\ (ghost.event.kind = "calibration_end" /\ ghost.event.status = "ok")
          => (ghost.event.cmd = "track" /\ ghost.event.id \in tracking)

\* C9: a calibration that ends with a failure sends no tracking request; a
\* manual abort sends nothing for the user, any other failure sends a new
\* calibration request for the same user; the handler leaves the loop
\* thread, the flags and the sensor as they are
C9_FailedCalibration ==
    [][ ( /\ ghost'.event # ghost.event
          /\ ghost'.event.kind = "calibration_end"
          /\ ghost'.event.status # "ok" )
        => /\ ghost'.event.cmd # "track"
           /\ tracking' = tracking
           /\ ghost'.event.status = "manual_abort"
                 => (ghost'.event.cmd = "none" /\ ghost'.event.id \notin calibrating')
           /\ ghost'.event.status # "manual_abort"
                 => (ghost'.event.cmd = "calibrate" /\ ghost'.event.id \in calibrating')
           /\ UNCHANGED << pc, flagVars, sensor, frameVars >>
      ]_vars

\* both failures have been delivered while the loop runs: user 1 is being
\* calibrated again, user 2's calibration was aborted
C9_RetryAndAbort ==
    /\ pc.main \in FramePcs
    /\ ghost.event = [kind |-> "calibration_end", id |-> 2, status |-> "manual_abort",
                      started |-> TRUE, cmd |-> "none"]
    /\ calibrating = {1}
    /\ tracking = {}

(***************************************************************************)
(* Properties of init() (Spec)                                             *)
(***************************************************************************)
\* the failure classes of init()
FailPoints == SdkPoints \cup FixedPoints

StartPcs == {"start_gen", "loop_lock", "loop_check"} \cup FramePcs \cup CleanupPcs

\* C11: an init() call made once init() has succeeded returns 1 and changes
\* neither the region handles, nor the sensor, nor any flag; the body of
\* init() is never entered with the initialized flag set
C11_DoubleInitRefused ==
    [][ /\ (init /\ ghost'.lastInit # ghost.lastInit)
              => /\ ghost'.lastInit = [point |-> "double_init", code |-> 1]
                 /\ init'
                 /\ UNCHANGED << flagVars, mutex, pc, handles, sensor, frameVars,
                                 regionVars, userVars >>
        /\ pc'.main \in {"init_body", "init_set"} => ~init'
      ]_vars

\* init() was called again after a whole run: started, stopped, then refused
C11_RefusedAfterRun ==
    /\ ghost.lastInit = [point |-> "double_init", code |-> 1]
    /\ init /\ started /\ stopped
    /\ pc.main = "idle"

\* C12: the initialized flag is set exactly when an init() call has returned
\* 0; a thread is inside start() past the test only with the flag set; and
\* a start() call made with the flag not set returns 5 and changes neither
\* the sensor, nor a flag, nor the loop's state
C12_StartNeedsInit ==
    [][ /\ init' <=> ghost'.initOk
        /\ pc'.main \in StartPcs => init'
        /\ (~init /\ (ghost'.startCalled # ghost.startCalled
                        \/ ghost'.lastStart # ghost.lastStart))
              => /\ ghost'.lastStart = 5
                 /\ UNCHANGED << flagVars, mutex, pc, handles, sensor, frameVars,
                                 regionVars, userVars >>
      ]_vars

\* start() was refused after an init() that found no device
C12_RefusedAfterFailedInit ==
    /\ ghost.lastStart = 5
    /\ ghost.lastInit = [point |-> "not_found", code |-> 4]
    /\ ~init /\ ~ghost.initOk
    /\ pc.main = "idle"

FourFeet(user) ==
    { user.rightPart.foot, user.leftPart.foot,
      user.previousRightPart.foot, user.previousLeftPart.foot }

\* C14: in a frame that calls walkSpeedForUser, the speed is -1 exactly when
\* one of the four feet is not active or has a confidence below 0.6, and
\* the confidence then keeps the value it had before the call
C14_NoSpeedWithoutFourFeet ==
    (camUser.isTracking /\ frameNo >= 2) =>
        LET failing == \E j \in FourFeet(camUser) : ~(j.isActive /\ j.conf >= ConfThreshold)
        IN  /\ camUser.walkSpeed = -1 <=> failing
            /\ failing => camUser.walkSpeedConfidence = DefaultUser.walkSpeedConfidence

\* both current feet are acceptable, a previous foot is not, and the speed is -1
C14_PreviousFootFails ==
    /\ camUser.isTracking /\ frameNo >= 2
    /\ isJointAcceptable(camUser.rightPart.foot) /\ isJointAcceptable(camUser.leftPart.foot)
    /\ isJointAcceptable(camUser.previousRightPart.foot)
    /\ camUser.previousLeftPart.foot.isActive
    /\ ~isJointAcceptable(camUser.previousLeftPart.foot)
    /\ camUser.walkSpeed = -1

\* a User on which no geometry was run
Blank(user) ==
    /\ user.id = 0
    /\ user.rotation = -1 /\ user.rotationConfidence = -100
    /\ user.walkSpeed = -1 /\ user.walkSpeedConfidence = -10000
    /\ user.numberOfFramesWithoutMove = 0

\* C18: a User that is not tracked, in the loop or in the info region, has
\* id 0, rotation -1, walk speed -1, both confidences -1 and counter 0
C18_UntrackedUserIsBlank ==
    /\ (frameNo >= 1 /\ pc.main # "loop_wait" /\ ~camUser.isTracking) => Blank(camUser)
    /\ (infoRegion.frame >= 1 /\ ~infoRegion.user.isTracking) => Blank(infoRegion.user)

\* the second frame published no user after a first frame with a rotation
C18_UntrackedAfterTracked ==
    /\ infoRegion.frame = 2
    /\ ~infoRegion.user.isTracking
    /\ previousUser.isTracking /\ previousUser.rotation \in Degrees
    /\ pc.main = "loop_lock"

RotationPairs(user) ==
    { << user.rightPart.hip, user.leftPart.hip >>,
      << user.rightPart.hip, user.torsoJoint >>,
      << user.torsoJoint, user.leftPart.hip >>,
      << user.rightPart.shoulder, user.leftPart.shoulder >> }

KnownPairs(user) ==
    { p \in RotationPairs(user) : isJointAcceptable(p[1]) /\ isJointAcceptable(p[2]) }

\* C15: the aggregate of a tracked frame is -1 exactly when all four pairs
\* are unknown and is in [0,360) otherwise, and the sub-rotations
\* {10, 350, -1, -1} give 0
C15_AggregateInRange ==
    /\ AggregateRotation(<< 10, 350, -1, -1 >>) = 0
    /\ camUser.isTracking =>
          /\ camUser.rotation = -1 <=> KnownPairs(camUser) = {}
          /\ camUser.rotation # -1 => camUser.rotation \in Degrees

\* C16: for every pair of acceptable joints of a tracked frame the resolved
\* angle is a defined value in [0,360): 0 for equal Z and right.X > left.X,
\* 90 for equal X and right.Z > left.Z, 180 for equal Z and right.X < left.X
C16_ResolvedAngleDefined ==
    camUser.isTracking =>
        \A p \in KnownPairs(camUser) :
            LET right == p[1]
                left == p[2]
                rotation == RawRotation(right, left)
            IN  /\ rotation # NaN
                /\ rotation >= 0 /\ rotation < 360 * AngleScale
                /\ (right.Z = left.Z /\ right.X > left.X) => rotation = 0
                /\ (right.X = left.X /\ right.Z > left.Z) => rotation = 90 * AngleScale
                /\ (right.Z = left.Z /\ right.X < left.X) => rotation = 180 * AngleScale

\* the joints createJoint fills in a frame
JointsOf(user) ==
    { user.torsoJoint,
      user.rightPart.hip, user.rightPart.foot, user.rightPart.shoulder,
      user.leftPart.hip, user.leftPart.foot, user.leftPart.shoulder }

\* C17: a joint is acceptable exactly when it is active with a confidence of
\* at least 0.6 (0.6 itself accepted, an inactive joint refused whatever its
\* confidence), and a pair with a joint that is not gives rotation -1 and
\* confidence -1, which for the hip pair is the published confidence
C17_AcceptableJoints ==
    camUser.isTracking =>
        /\ \A j \in JointsOf(camUser) :
              /\ j.conf < 6 => ~isJointAcceptable(j)
              /\ ~j.isActive => ~isJointAcceptable(j)
              /\ (j.isActive /\ j.conf >= 6) => isJointAcceptable(j)
        /\ \A p \in RotationPairs(camUser) :
              (\E j \in {p[1], p[2]} : ~(j.isActive /\ j.conf >= 6))
                 => \A nanInt \in NaNCast :
                       rotationFrom2Joints(frequency, p[1], p[2], previousUser.rotation, nanInt)
                           = [rotation |-> -1, confidence |-> -100]
        /\ (\E j \in {camUser.rightPart.hip, camUser.leftPart.hip} : ~(j.isActive /\ j.conf >= 6))
              <=> camUser.rotationConfidence = -100

\* a foot at exactly 0.6 gave a speed, after a frame whose inactive right
\* hip with confidence 1.0 gave the hip pair confidence -1
C17_ThresholdAndInactive ==
    /\ camUser.isTracking /\ frameNo = 3
    /\ camUser.leftPart.foot.isActive /\ camUser.leftPart.foot.conf = 6
    /\ camUser.walkSpeed # -1
    /\ previousUser.rightPart.hip = StaleJoint
    /\ previousUser.rotationConfidence = -100

(***************************************************************************)
(* Termination (LiveSpec)                                                  *)
(***************************************************************************)
\* C19: once requestStop() has set the stop flag of an initialized object,
\* stopped eventually becomes true and requestStop() returns, and a start()
\* that is running leaves its loop and returns; start() returns 0 only
\* with the stop flag set
C19_StopTerminates ==
    /\ (init /\ stopRequested) ~> (stopped /\ pc.ctrl \notin RequestStopPcs)
    /\ (init /\ stopRequested /\ pc.main \in StartPcs) ~> (pc.main = "idle")
    /\ [](ghost.lastStart = 0 => stopRequested)
    /\ [][(pc.main \in StartPcs \ {"start_gen"} /\ pc'.main = "idle")
            => (stopRequested /\ pc.main = "cleanup_set" /\ stopped')]_vars

\* requestStop() found the loop running after its second frame and left the
\* cleanup to it; the loop has ended and start() has returned 0
C19_LoopStopped ==
    /\ init /\ started /\ stopRequested /\ stopped
    /\ frameNo >= 2
    /\ ghost.cleanups = {"main"}
    /\ ghost.lastStart = 0
    /\ pc = [main |-> "idle", ctrl |-> "idle"]

(***************************************************************************)
(* Properties of the published estimates (FrameSpec)                       *)
(***************************************************************************)
\* C21: in every tracked frame the rotation confidence is
\* (left hip confidence + 1) * (right hip confidence + 1) when both hips are
\* acceptable and -1 otherwise, whatever the other three pairs are
C21_ConfidenceFromHipsOnly ==
    camUser.isTracking =>
        LET right == camUser.rightPart.hip
            left == camUser.leftPart.hip
        IN  camUser.rotationConfidence =
                IF right.isActive /\ right.conf >= 6 /\ left.isActive /\ left.conf >= 6
                THEN (left.conf + 10) * (right.conf + 10)
                ELSE -100

\* a frame with a rotation from the shoulders and no confidence from the hips
C21_RotationWithoutConfidence ==
    /\ camUser.isTracking
    /\ camUser.rotation \in Degrees
    /\ camUser.rotationConfidence = -100
    /\ KnownPairs(camUser) # {}

\* the pairs of a frame in the case the source labels 270
LabelledPairs(user) ==
    { p \in KnownPairs(user) : p[1].X = p[2].X /\ p[1].Z < p[2].Z }

\* C22: for two acceptable joints with equal X and right.Z < left.Z the
\* resolved angle is 90, as for right.Z > left.Z, and a first frame whose
\* known pairs are all in that case publishes 90
C22_Labelled270Gives90 ==
    camUser.isTracking =>
        /\ \A p \in LabelledPairs(camUser) :
              /\ RawRotation(p[1], p[2]) = 90 * AngleScale
              /\ RawRotation(p[1], p[2]) = RawRotation(p[2], p[1])
        /\ (frameNo = 1 /\ LabelledPairs(camUser) # {}
                /\ LabelledPairs(camUser) = KnownPairs(camUser))
              => camUser.rotation = 90

\* a first frame with the right hip and shoulder straight in front of the left
C22_FacingBackwards ==
    /\ camUser.isTracking /\ frameNo = 1
    /\ LabelledPairs(camUser) = RotationPairs(camUser)
    /\ camUser.rotation = 90

\* the walk speeds a frame may publish
PublishedSpeed(speed) == speed = -1 \/ speed >= 0

C24_QuietAfterStopped ==
    [][stopped => /\ frameNo' = frameNo
                  /\ depthRegion' = depthRegion
                  /\ infoRegion' = infoRegion]_vars

(***************************************************************************)
(* Destruction (DestroySpec)                                               *)
(***************************************************************************)
\* C25: in whatever lifecycle state the object is destroyed, every pointer
\* the destructor calls through has been set by init(), and the destructor
\* returns
C25_DestructorUsesCreatedHandles ==
    /\ ghost.destructor.faults = {}
    /\ ghost.destructor.outcome # "crashed"

(***************************************************************************)
(* The lifecycle flags (Spec)                                              *)
(***************************************************************************)
\* the loop has written every sample of the depth region and the info region
FrameWritten ==
    /\ \A i \in 1..DepthLen : depthRegion[i] # 0
    /\ infoRegion.frame >= 1

\* what it has written is a frame of the sensor
FramePublished ==
    /\ \A i \in 1..DepthLen : depthRegion[i] >= 1
    /\ infoRegion.frame >= 1

\* C26: no lifecycle flag goes back from true to false; started implies
\* initialized and a complete write of both shared regions, of a frame of
\* the sensor unless requestStop() released the sensor under the loop; and
\* the loop sets stopped only with the stop flag set
C26_FlagsMonotonicAndOrdered ==
    /\ [][/\ init => init'
          /\ started => started'
          /\ stopRequested => stopRequested'
          /\ stopped => stopped'
          /\ (pc.main = "cleanup_set" /\ pc'.main # pc.main) => stopRequested]_vars
    /\ [](started => /\ init
                     /\ FrameWritten
                     /\ "ctrl" \notin ghost.cleanups => FramePublished)

\* the first iteration has just set started: both regions hold frame 1
C26_StartedAfterFirstFrame ==
    /\ init /\ started /\ ~stopRequested /\ ~stopped
    /\ frameNo = 1 /\ ~firstLoop
    /\ pc.main = "loop_lock"
    /\ FramePublished

=============================================================================
